---- MODULE Spec2Model ----
(***************************************************************************)
(* Model of src/tool.py: the record evaluator process_json_file and the    *)
(* scan coordinator scan_servers_parallel (a ProcessPoolExecutor fan-out   *)
(* collected with as_completed).                                           *)
(*                                                                         *)
(* A JSON file of the servers folder is identified by a number f that      *)
(* stands for its name (json_file.name); names are ordered as the numbers  *)
(* are.  The content of a file is a record that keeps what the evaluator   *)
(* can observe of it: whether it decodes, the shape of the decoded value   *)
(* and the fields process_json_file extracts.                              *)
(***************************************************************************)
EXTENDS Integers, Sequences, FiniteSets, TLC

\* ---------------------------------------------------------------- bounds
MaxFiles == 3
MaxCpu == 2
MaxRaise == 2
MaxRows == 3

\* ------------------------------------------------------------- universes
Resources == {"gpu-cluster", "storage"}
Packages == {"pkg-gpu", "pkg-storage"}
ResourceRank(r) == IF r = "gpu-cluster" THEN 1 ELSE 2

\* markers of a JSON member that is missing, or present with a value of a
\* type the evaluator does not expect (null, a number)
Absent == "<absent>"
WrongType == "<wrong type>"

OwnerNames == {"Alice", "alice", "bob", "carol"}
Usernames == {"alice", "bob"}

\* a lookup key that keeps the case of the name
Lower_KeepsCase(s) == s

\* str.lower() on the strings of the model
Lower(s) ==
  CASE s = "Alice" -> "alice"
    [] s = "N/A" -> "n/a"
    [] OTHER -> s

\* the `error` of a (result, error) pair: None, or one of the two messages
None == [kind |-> "None", file |-> 0]
ReadError(json_file) == [kind |-> "Error reading", file |-> json_file]
UnexpectedError(json_file) == [kind |-> "Unexpected error with", file |-> json_file]

\* ------------------------------------------------------------ the inputs
NoList == [kind |-> Absent, items |-> {}]
BadList == [kind |-> WrongType, items |-> {}]
ListOf(S) == [kind |-> "list", items |-> S]

\* a file that does not decode (JSONDecodeError, UnicodeDecodeError)
Undecodable ==
  [json |-> "invalid", EndPoint |-> Absent, Data |-> Absent, resources |-> NoList,
   ownerName |-> Absent, ownerProfile |-> Absent, raises |-> 0]
\* a file that decodes to a value that is not an object (an array, a number)
NotAnObject ==
  [json |-> "array", EndPoint |-> Absent, Data |-> Absent, resources |-> NoList,
   ownerName |-> Absent, ownerProfile |-> Absent, raises |-> 0]
\* an object without the member Data, or with a Data that is not an object
NoData(kind, endpoint, raises) ==
  [json |-> "object", EndPoint |-> endpoint, Data |-> kind, resources |-> NoList,
   ownerName |-> Absent, ownerProfile |-> Absent, raises |-> raises]
\* an object with a Data object
WithData(endpoint, resources, owner, profile, raises) ==
  [json |-> "object", EndPoint |-> endpoint, Data |-> "object", resources |-> resources,
   ownerName |-> owner, ownerProfile |-> profile, raises |-> raises]

EndPoints == {Absent, "srv"}
Profiles == {Absent, "profile"}
ResourceLists == {NoList, BadList} \cup {ListOf(S) : S \in SUBSET Resources}

\* raises = k > 0: the interpreter raises in iteration k of the rule loop for
\* this record (any exception that is an Exception, e.g. MemoryError)
AllRecords ==
  {Undecodable, NotAnObject}
    \cup {NoData(k, e, x) : k \in {Absent, WrongType}, e \in EndPoints, x \in 0..MaxRaise}
    \cup {WithData(e, r, o, p, x) :
            e \in EndPoints, r \in ResourceLists,
            o \in OwnerNames \cup {Absent, WrongType}, p \in Profiles, x \in 0..MaxRaise}

\* a record with every field present and of the expected type
WellFormed(data) ==
  /\ data.json = "object"
  /\ data.Data = "object"
  /\ data.resources.kind = "list"
  /\ data.ownerName \in OwnerNames
  /\ data.ownerProfile # Absent
  /\ data.EndPoint # Absent
  /\ data.raises = 0

Rule(resource, package) == [resource |-> resource, required_package |-> package]

\* requirements is a dict: its keys are distinct, it iterates in insertion order
RequirementTables ==
  {<<>>}
    \cup {<<Rule(r, p)>> : r \in Resources, p \in Packages}
    \cup {t \in {<<Rule(r1, p1), Rule(r2, p2)>> :
                   r1 \in Resources, r2 \in Resources, p1 \in Packages, p2 \in Packages} :
            t[1].resource # t[2].resource}

\* user_packages is a dict from lower-cased usernames to sets of packages
CustomerIndexes ==
  UNION {[U -> SUBSET Packages] : U \in SUBSET Usernames}

VARIABLES
  servers,              \* the servers folder: file |-> content
  requirements,         \* the entitlement table
  user_packages,        \* the customer index
  cpu_count,            \* multiprocessing.cpu_count()
  pc,                   \* where the caller is
  evaluated,            \* what a direct call of process_json_file returned
  json_files,           \* line 78: the files the scan enumerated
  max_workers,          \* size of the ProcessPoolExecutor; 0 while there is none
  future_to_file,       \* line 89: file |-> state and result of its future
  unauthorized_servers, \* line 85
  processed_files,      \* line 86
  found_servers,        \* line 87
  stdout,               \* the error messages line 94 printed, in order
  ret,                  \* the tuple scan_servers_parallel returned; <<>> before
  run,                  \* 1 in the first scan, 2 in the second
  added,                \* the file put into the folder between the scans; 0 if none
  first,                \* what the first scan returned and printed
  given,                \* the table and the index scan_servers_parallel was called with
  requirements_file,    \* Requirements/Requirements.txt: its lines, or that it is missing
  customers_csv,        \* the first CSV file of customers: its rows, or that there is none
  report                \* what save_results_to_file wrote; <<>> before

inputs == <<servers, requirements, user_packages, cpu_count>>
scan == <<json_files, max_workers, future_to_file, unauthorized_servers,
          processed_files, found_servers, stdout, ret>>
history == <<run, added, first>>
main == <<requirements_file, customers_csv, report>>
vars == <<inputs, pc, evaluated, scan, history, given, main>>

\* ------------------------------------------------------ process_json_file
DictGet(value, default) == IF value = Absent THEN default ELSE value

\* how the try block ends: normally with the accumulated unauthorized_servers,
\* or by raising what line 71 or line 73 catches
\* (acc is the local unauthorized_servers at that moment)
Completed(acc) == [raised |-> "no", acc |-> acc]
Raised(what, acc) == [raised |-> what, acc |-> acc]

\* a lookup that lets an owner the index does not know pass every check
OwnerOwned_UnknownOwnsAll(owner_key, packages) ==
  IF owner_key \in DOMAIN packages THEN packages[owner_key] ELSE Packages

\* line 61: user_packages.get(owner_key, set())
OwnerOwned(owner_key, packages) ==
  IF owner_key \in DOMAIN packages THEN packages[owner_key] ELSE {}

\* a check that forgets the owner's packages: every gated resource a record uses
\* is reported
Unauthorized_IgnoresPackages(resource, required_package, server_resources, owner_owned) ==
  resource \in server_resources.items

\* lines 60 and 62: the two conditions under which an entry is appended
Unauthorized(resource, required_package, server_resources, owner_owned) ==
  /\ resource \in server_resources.items
  /\ required_package \notin owner_owned

\* a loop that puts each new entry in front of the list (insert(0, ...))
RECURSIVE RuleLoop_Prepends(_, _, _, _, _)
RuleLoop_Prepends(i, acc, json_file, reqs, packages) ==
  LET data == servers[json_file]
      server_resources == data.resources
      owner_name == DictGet(data.ownerName, "N/A")
      owner_owned == OwnerOwned(Lower(owner_name), packages)
      entry == [server_code |-> DictGet(data.EndPoint, "N/A"),
                owner_name |-> owner_name,
                owner_profile |-> DictGet(data.ownerProfile, "N/A"),
                resource |-> reqs[i].resource,
                required_package |-> reqs[i].required_package,
                file_name |-> json_file]
  IN IF i > Len(reqs) THEN Completed(acc)
     ELSE IF data.raises = i \/ server_resources.kind = WrongType THEN Raised("Exception", acc)
     ELSE IF Unauthorized(reqs[i].resource, reqs[i].required_package,
                          server_resources, owner_owned)
          THEN RuleLoop_Prepends(i + 1, <<entry>> \o acc, json_file, reqs, packages)
          ELSE RuleLoop_Prepends(i + 1, acc, json_file, reqs, packages)

\* lines 59-70: iteration i of the loop over requirements.items(), with the
\* unauthorized_servers accumulated so far
RECURSIVE RuleLoop(_, _, _, _, _)
RuleLoop(i, acc, json_file, reqs, packages) ==
  LET data == servers[json_file]
      server_resources == data.resources
      owner_name == DictGet(data.ownerName, "N/A")
      owner_key == Lower(owner_name)
      owner_owned == OwnerOwned(owner_key, packages)
      entry == [server_code |-> DictGet(data.EndPoint, "N/A"),
                owner_name |-> owner_name,
                owner_profile |-> DictGet(data.ownerProfile, "N/A"),
                resource |-> reqs[i].resource,
                required_package |-> reqs[i].required_package,
                file_name |-> json_file]
  IN IF i > Len(reqs) THEN Completed(acc)
     ELSE IF data.raises = i \/ server_resources.kind = WrongType THEN Raised("Exception", acc)
     ELSE IF Unauthorized(reqs[i].resource, reqs[i].required_package,
                          server_resources, owner_owned)
          THEN RuleLoop(i + 1, Append(acc, entry), json_file, reqs, packages)
          ELSE RuleLoop(i + 1, acc, json_file, reqs, packages)

\* a try block that reads data["Data"] instead of data.get("Data", {}): a
\* missing Data raises KeyError
TryBody_KeyError(json_file, reqs, packages) ==
  LET data == servers[json_file]
  IN IF data.json = "invalid" THEN Raised("JSONDecodeError", <<>>)
     ELSE IF data.json # "object" THEN Raised("Exception", <<>>)
     ELSE IF data.Data # "object" THEN Raised("Exception", <<>>)
     ELSE IF data.ownerName = WrongType THEN Raised("Exception", <<>>)
     ELSE RuleLoop(1, <<>>, json_file, reqs, packages)

\* lines 52-70: the body of the try block
TryBody(json_file, reqs, packages) ==
  LET data == servers[json_file]
  IN IF data.json = "invalid" THEN Raised("JSONDecodeError", <<>>)
     ELSE IF data.json # "object" THEN Raised("Exception", <<>>)
     ELSE IF data.Data = WrongType THEN Raised("Exception", <<>>)
     ELSE IF data.ownerName = WrongType THEN Raised("Exception", <<>>)
     ELSE RuleLoop(1, <<>>, json_file, reqs, packages)

\* handlers that return the partly filled list with the message
process_json_file_KeepsPartial(json_file, reqs, packages) ==
  LET body == TryBody(json_file, reqs, packages)
  IN IF body.raised = "JSONDecodeError" THEN <<body.acc, ReadError(json_file)>>
     ELSE IF body.raised = "Exception" THEN <<body.acc, UnexpectedError(json_file)>>
     ELSE <<body.acc, None>>

\* lines 48-75
process_json_file(json_file, reqs, packages) ==
  LET body == TryBody(json_file, reqs, packages)
  IN IF body.raised = "JSONDecodeError" THEN <<<<>>, ReadError(json_file)>>
     ELSE IF body.raised = "Exception" THEN <<<<>>, UnexpectedError(json_file)>>
     ELSE <<body.acc, None>>

\* ------------------------------------------- a direct call of the evaluator
NoScan ==
  /\ json_files = {}
  /\ max_workers = 0
  /\ future_to_file = <<>>
  /\ unauthorized_servers = <<>>
  /\ processed_files = 0
  /\ found_servers = 0
  /\ stdout = <<>>
  /\ ret = <<>>

NoHistory ==
  /\ run = 1
  /\ added = 0
  /\ first = <<>>
  /\ given = <<>>

\* the files main reads and writes play no part
NoMain ==
  /\ requirements_file = [exists |-> FALSE, lines |-> <<>>]
  /\ customers_csv = [exists |-> FALSE, rows |-> <<>>]
  /\ report = <<>>

\* the same record with the owner name in the other letter case
CaseTwin(data) ==
  [data EXCEPT !.ownerName = IF @ = "Alice" THEN "alice"
                             ELSE IF @ = "alice" THEN "Alice" ELSE @]

\* file 1 is the record evaluated; file 2 holds its twin
InitEval ==
  /\ \E data \in AllRecords : servers = <<data, CaseTwin(data)>>
  /\ requirements \in RequirementTables
  /\ user_packages \in CustomerIndexes
  /\ cpu_count = 1
  /\ pc = "call"
  /\ evaluated = <<>>
  /\ NoScan
  /\ NoHistory
  /\ NoMain

CallEvaluator ==
  /\ pc = "call"
  /\ evaluated' = process_json_file(1, requirements, user_packages)
  /\ pc' = "called"
  /\ UNCHANGED <<inputs, scan, history, given, main>>

NextEval == CallEvaluator

SpecEval == InitEval /\ [][NextEval]_vars

\* ------------------------------------------------- scan_servers_parallel
Pending == [state |-> "pending", worker |-> 0, result |-> <<<<>>, None>>]
FuturesIn(state) == {f \in DOMAIN future_to_file : future_to_file[f].state = state}

\* the records the scans run over: the owners of the customer index below and
\* one it does not know, and a file that does not decode
Srv(owner, resources) == WithData("srv", ListOf(resources), owner, "profile", 0)
ScanRecords ==
  {Srv("Alice", {"gpu-cluster"}),
   Srv("bob", {"gpu-cluster", "storage"}),
   Srv("carol", {"gpu-cluster"}),
   Undecodable}
\* the records put into the folder between two scans
AddedRecords ==
  {Undecodable, NotAnObject,
   NoData(Absent, "srv", 0),
   NoData(WrongType, "srv", 0),
   WithData("srv", BadList, "bob", "profile", 0),
   WithData("srv", ListOf({"gpu-cluster"}), Absent, "profile", 0)}
ScanTables ==
  {<<>>,
   <<Rule("gpu-cluster", "pkg-gpu")>>,
   <<Rule("storage", "pkg-storage"), Rule("gpu-cluster", "pkg-gpu")>>}
ScanIndex == [u \in Usernames |-> IF u = "alice" THEN {"pkg-gpu"} ELSE {}]

Init ==
  /\ \E n \in 0..MaxFiles : servers \in [1..n -> ScanRecords]
  /\ requirements \in ScanTables
  /\ user_packages = ScanIndex
  /\ cpu_count \in {1, MaxCpu}
  /\ pc = "scan"
  /\ evaluated = <<>>
  /\ NoScan
  /\ NoHistory
  /\ NoMain

\* a scan without the check of line 80
Enumerate_NoShortCircuit ==
  /\ pc = "scan"
  /\ json_files' = DOMAIN servers
  /\ pc' = "executor"
  /\ unauthorized_servers' = <<>>
  /\ processed_files' = 0
  /\ found_servers' = 0
  /\ given' = <<requirements, user_packages>>
  /\ UNCHANGED <<inputs, evaluated, max_workers, future_to_file, stdout, ret, history, main>>

\* lines 78-87: enumerate the folder; return at once when it holds no file
Enumerate ==
  /\ pc = "scan"
  /\ json_files' = DOMAIN servers
  /\ IF Cardinality(DOMAIN servers) = 0
       THEN /\ ret' = <<<<>>, 0, 0>>
            /\ pc' = "returned"
       ELSE /\ ret' = ret
            /\ pc' = "executor"
  /\ unauthorized_servers' = <<>>
  /\ processed_files' = 0
  /\ found_servers' = 0
  /\ given' = <<requirements, user_packages>>
  /\ UNCHANGED <<inputs, evaluated, max_workers, future_to_file, stdout, history, main>>

\* lines 88-89: create the pool and submit one call per file
Submit ==
  /\ pc = "executor"
  /\ max_workers' = cpu_count
  /\ future_to_file' = [f \in json_files |-> Pending]
  /\ pc' = "as_completed"
  /\ UNCHANGED <<inputs, evaluated, json_files, unauthorized_servers,
                 processed_files, found_servers, stdout, ret, history, given, main>>

\* the futures a process of the pool is evaluating (workers are 1..max_workers)
RunningOn(w) ==
  {f \in DOMAIN future_to_file :
     future_to_file[f].state = "running" /\ future_to_file[f].worker = w}

\* a pool that hands a submitted call to a worker whatever the worker is doing
WorkerStart_NoLimit(f) ==
  /\ f \in FuturesIn("pending")
  /\ \E w \in 1..max_workers :
       future_to_file' = [future_to_file EXCEPT ![f].state = "running", ![f].worker = w]
  /\ UNCHANGED <<inputs, pc, evaluated, json_files, max_workers, unauthorized_servers,
                 processed_files, found_servers, stdout, ret, history, given, main>>

\* a free worker of the pool takes a submitted call (the processes of the pool
\* are interchangeable: the free one with the least number stands for any)
WorkerStart(f) ==
  /\ f \in FuturesIn("pending")
  /\ \E w \in 1..max_workers :
       /\ RunningOn(w) = {}
       /\ \A v \in 1..(w - 1) : RunningOn(v) # {}
       /\ future_to_file' = [future_to_file EXCEPT ![f].state = "running", ![f].worker = w]
  /\ UNCHANGED <<inputs, pc, evaluated, json_files, max_workers, unauthorized_servers,
                 processed_files, found_servers, stdout, ret, history, given, main>>

\* an evaluator that looks the owner up with setdefault and so writes to the index
WorkerFinish_SetDefault(f) ==
  /\ f \in FuturesIn("running")
  /\ future_to_file' =
       [future_to_file EXCEPT
          ![f] = [state |-> "done", worker |-> 0,
                  result |-> process_json_file(f, requirements, user_packages)]]
  /\ LET key == Lower(DictGet(servers[f].ownerName, "N/A"))
     IN user_packages' =
          IF servers[f].json # "object" \/ servers[f].ownerName = WrongType
             \/ key \in DOMAIN user_packages
          THEN user_packages
          ELSE [u \in DOMAIN user_packages \cup {key} |->
                  IF u = key THEN {} ELSE user_packages[u]]
  /\ UNCHANGED <<servers, requirements, cpu_count, pc, evaluated, json_files, max_workers,
                 unauthorized_servers, processed_files, found_servers, stdout, ret,
                 history, given, main>>

\* a worker that extends the shared list itself before the coordinator does
WorkerFinish_AppendsShared(f) ==
  /\ f \in FuturesIn("running")
  /\ future_to_file' =
       [future_to_file EXCEPT
          ![f] = [state |-> "done", worker |-> 0,
                  result |-> process_json_file(f, requirements, user_packages)]]
  /\ unauthorized_servers' =
       unauthorized_servers \o process_json_file(f, requirements, user_packages)[1]
  /\ UNCHANGED <<inputs, pc, evaluated, json_files, max_workers,
                 processed_files, found_servers, stdout, ret, history, given, main>>

\* the worker runs process_json_file on its arguments and the future completes
WorkerFinish(f) ==
  /\ f \in FuturesIn("running")
  /\ future_to_file' =
       [future_to_file EXCEPT
          ![f] = [state |-> "done", worker |-> 0,
                  result |-> process_json_file(f, requirements, user_packages)]]
  /\ UNCHANGED <<inputs, pc, evaluated, json_files, max_workers, unauthorized_servers,
                 processed_files, found_servers, stdout, ret, history, given, main>>

\* a loop that assigns the result instead of extending the list with it
Collect_Overwrites(f) ==
  /\ pc = "as_completed"
  /\ f \in FuturesIn("done")
  /\ LET result == future_to_file[f].result[1]
         error == future_to_file[f].result[2]
     IN /\ processed_files' = processed_files + 1
        /\ stdout' = IF error # None THEN Append(stdout, error) ELSE stdout
        /\ found_servers' = IF result # <<>> THEN found_servers + Len(result)
                            ELSE found_servers
        /\ unauthorized_servers' = IF result # <<>> THEN result ELSE unauthorized_servers
  /\ future_to_file' = [future_to_file EXCEPT ![f].state = "yielded"]
  /\ UNCHANGED <<inputs, pc, evaluated, json_files, max_workers, ret, history, given, main>>

\* a loop that prints the error and continues before it counts the file
Collect_SkipsFailed(f) ==
  /\ pc = "as_completed"
  /\ f \in FuturesIn("done")
  /\ LET result == future_to_file[f].result[1]
         error == future_to_file[f].result[2]
     IN /\ processed_files' = IF error # None THEN processed_files ELSE processed_files + 1
        /\ stdout' = IF error # None THEN Append(stdout, error) ELSE stdout
        /\ found_servers' = IF result # <<>> THEN found_servers + Len(result)
                            ELSE found_servers
        /\ unauthorized_servers' = IF result # <<>> THEN unauthorized_servers \o result
                                   ELSE unauthorized_servers
  /\ future_to_file' = [future_to_file EXCEPT ![f].state = "yielded"]
  /\ UNCHANGED <<inputs, pc, evaluated, json_files, max_workers, ret, history, given, main>>

\* a loop that ignores the error of the pair
Collect_Silent(f) ==
  /\ pc = "as_completed"
  /\ f \in FuturesIn("done")
  /\ LET result == future_to_file[f].result[1]
     IN /\ processed_files' = processed_files + 1
        /\ found_servers' = IF result # <<>> THEN found_servers + Len(result)
                            ELSE found_servers
        /\ unauthorized_servers' = IF result # <<>> THEN unauthorized_servers \o result
                                   ELSE unauthorized_servers
  /\ future_to_file' = [future_to_file EXCEPT ![f].state = "yielded"]
  /\ UNCHANGED <<inputs, pc, evaluated, json_files, max_workers, stdout, ret, history, given, main>>

\* a loop that counts a file whose evaluation failed as an unauthorized server
Collect_CountsFailed(f) ==
  /\ pc = "as_completed"
  /\ f \in FuturesIn("done")
  /\ LET result == future_to_file[f].result[1]
         error == future_to_file[f].result[2]
     IN /\ processed_files' = processed_files + 1
        /\ stdout' = IF error # None THEN Append(stdout, error) ELSE stdout
        /\ found_servers' = IF error # None THEN found_servers + 1
                            ELSE found_servers + Len(result)
        /\ unauthorized_servers' = IF result # <<>> THEN unauthorized_servers \o result
                                   ELSE unauthorized_servers
  /\ future_to_file' = [future_to_file EXCEPT ![f].state = "yielded"]
  /\ UNCHANGED <<inputs, pc, evaluated, json_files, max_workers, ret, history, given, main>>

\* a loop that counts one unauthorized server per file with a non-empty result
Collect_CountsRecords(f) ==
  /\ pc = "as_completed"
  /\ f \in FuturesIn("done")
  /\ LET result == future_to_file[f].result[1]
         error == future_to_file[f].result[2]
     IN /\ processed_files' = processed_files + 1
        /\ stdout' = IF error # None THEN Append(stdout, error) ELSE stdout
        /\ found_servers' = IF result # <<>> THEN found_servers + 1 ELSE found_servers
        /\ unauthorized_servers' = IF result # <<>> THEN unauthorized_servers \o result
                                   ELSE unauthorized_servers
  /\ future_to_file' = [future_to_file EXCEPT ![f].state = "yielded"]
  /\ UNCHANGED <<inputs, pc, evaluated, json_files, max_workers, ret, history, given, main>>

\* lines 90-99: one iteration of the loop over as_completed, on a completed
\* future it has not yielded yet
Collect(f) ==
  /\ pc = "as_completed"
  /\ f \in FuturesIn("done")
  /\ LET result == future_to_file[f].result[1]
         error == future_to_file[f].result[2]
     IN /\ processed_files' = processed_files + 1
        /\ stdout' = IF error # None THEN Append(stdout, error) ELSE stdout
        /\ found_servers' = IF result # <<>> THEN found_servers + Len(result)
                            ELSE found_servers
        /\ unauthorized_servers' = IF result # <<>> THEN unauthorized_servers \o result
                                   ELSE unauthorized_servers
  /\ future_to_file' = [future_to_file EXCEPT ![f].state = "yielded"]
  /\ UNCHANGED <<inputs, pc, evaluated, json_files, max_workers, ret, history, given, main>>

\* a loop that is left as soon as no result is waiting to be collected
Return_Early ==
  /\ pc = "as_completed"
  /\ FuturesIn("done") = {}
  /\ ret' = <<unauthorized_servers, processed_files, found_servers>>
  /\ pc' = "returned"
  /\ UNCHANGED <<inputs, evaluated, json_files, max_workers, future_to_file,
                 unauthorized_servers, processed_files, found_servers, stdout, history, given, main>>

\* lines 100-101: as_completed is exhausted once it has yielded every future
Return ==
  /\ pc = "as_completed"
  /\ FuturesIn("yielded") = DOMAIN future_to_file
  /\ ret' = <<unauthorized_servers, processed_files, found_servers>>
  /\ pc' = "returned"
  /\ UNCHANGED <<inputs, evaluated, json_files, max_workers, future_to_file,
                 unauthorized_servers, processed_files, found_servers, stdout, history, given, main>>

Range(list) == {list[k] : k \in 1..Len(list)}
Outcome == [violations |-> Range(ret[1]), processed |-> ret[2], found |-> ret[3],
            diagnostics |-> Len(stdout)]

\* the program is run again: on the same folder
RunAgain ==
  /\ pc = "returned"
  /\ run = 1
  /\ run' = 2
  /\ first' = Outcome
  /\ pc' = "scan"
  /\ json_files' = {}
  /\ max_workers' = 0
  /\ future_to_file' = <<>>
  /\ unauthorized_servers' = <<>>
  /\ processed_files' = 0
  /\ found_servers' = 0
  /\ stdout' = <<>>
  /\ ret' = <<>>
  /\ UNCHANGED <<inputs, evaluated, added, given, main>>

\* the program is run again: on a folder of well-formed records with one more
\* file in it
RunAgainWith(data) ==
  /\ pc = "returned"
  /\ run = 1
  /\ Cardinality(DOMAIN servers) < MaxFiles
  /\ \A f \in DOMAIN servers : WellFormed(servers[f])
  /\ LET f == Cardinality(DOMAIN servers) + 1
     IN /\ servers' = [g \in 1..f |-> IF g = f THEN data ELSE servers[g]]
        /\ added' = f
  /\ run' = 2
  /\ first' = Outcome
  /\ pc' = "scan"
  /\ json_files' = {}
  /\ max_workers' = 0
  /\ future_to_file' = <<>>
  /\ unauthorized_servers' = <<>>
  /\ processed_files' = 0
  /\ found_servers' = 0
  /\ stdout' = <<>>
  /\ ret' = <<>>
  /\ UNCHANGED <<requirements, user_packages, cpu_count, evaluated, given, main>>

Next ==
  \/ Enumerate
  \/ Submit
  \/ \E f \in DOMAIN future_to_file : WorkerStart(f)
  \/ \E f \in DOMAIN future_to_file : WorkerFinish(f)
  \/ \E f \in DOMAIN future_to_file : Collect(f)
  \/ Return
  \/ RunAgain
  \/ \E data \in AddedRecords : RunAgainWith(data)

Spec == Init /\ [][Next]_vars

\* ------------------------------------------------------ load_requirements
\* str.strip() on the strings of the model
Strip(s) ==
  CASE s = " gpu-cluster " -> "gpu-cluster"
    [] s = " pkg-gpu" -> "pkg-gpu"
    [] s = " alice " -> "alice"
    [] s = " " -> ""
    [] OTHER -> s

\* a line "resource:package", and a line without a colon (text = "" is a blank line)
Line(resource, package) == [colon |-> TRUE, resource |-> resource, package |-> package]
NoColon(text) == [colon |-> FALSE, resource |-> text, package |-> ""]

\* line 22: requirements[key] = value on a dict that keeps insertion order
DictSet(reqs, key, value) ==
  IF \E i \in 1..Len(reqs) : reqs[i].resource = key
  THEN [i \in 1..Len(reqs) |->
          IF reqs[i].resource = key THEN Rule(key, value) ELSE reqs[i]]
  ELSE Append(reqs, Rule(key, value))

\* lines 17-22: the loop over the lines, from line i on
RECURSIVE ReadLines(_, _, _)
ReadLines(lines, i, reqs) ==
  IF i > Len(lines) THEN reqs
  ELSE IF ~lines[i].colon THEN ReadLines(lines, i + 1, reqs)
  ELSE ReadLines(lines, i + 1,
                 DictSet(reqs, Strip(lines[i].resource), Strip(lines[i].package)))

\* lines 11-23
load_requirements(file) ==
  IF ~file.exists THEN <<>> ELSE ReadLines(file.lines, 1, <<>>)

\* ------------------------------------------------- load_customer_packages
\* what DictReader gives for a column a short row does not reach
NoneValue == "<None>"
Row(username, packages) == [Username |-> username, Packages |-> packages]
Field(tokens) == [none |-> FALSE, tokens |-> tokens]
NoField == [none |-> TRUE, tokens |-> <<>>]

\* a Packages field is a sequence of package names and of the characters the
\* loader treats specially
Removed == {"[", "]", "\""}
Delimiters == {",", " "}

\* the text of two names that end up adjacent
Join(piece) ==
  IF Len(piece) = 1 THEN piece[1]
  ELSE IF piece = <<"pkg-gpu", "pkg-storage">> THEN "pkg-gpupkg-storage"
  ELSE "pkg-storagepkg-gpu"

\* lines 41-42: re.split on runs of commas and whitespace, empty pieces dropped
RECURSIVE SplitField(_, _, _)
SplitField(tokens, i, piece) ==
  IF i > Len(tokens)
  THEN IF piece = <<>> THEN {} ELSE {Join(piece)}
  ELSE IF tokens[i] \in Delimiters
       THEN (IF piece = <<>> THEN {} ELSE {Join(piece)}) \cup SplitField(tokens, i + 1, <<>>)
       ELSE SplitField(tokens, i + 1, Append(piece, tokens[i]))

\* lines 39-42: the set of packages of a Packages field
OwnedPackages(tokens) ==
  LET kept == SelectSeq(tokens, LAMBDA t : t \notin Removed)
      clean_field == [i \in 1..Len(kept) |-> IF kept[i] = ";" THEN "," ELSE kept[i]]
  IN SplitField(clean_field, 1, <<>>)

\* a loader that assigns the packages of the row to the username
AddRow_Overwrites(index, username, owned_packages) ==
  [u \in DOMAIN index \cup {username} |-> IF u = username THEN owned_packages ELSE index[u]]

\* lines 43-45
AddRow(index, username, owned_packages) ==
  [u \in DOMAIN index \cup {username} |->
     IF u = username
     THEN (IF u \in DOMAIN index THEN index[u] ELSE {}) \cup owned_packages
     ELSE index[u]]

\* lines 33-45: the loop over the rows, from row i on; .strip() of lines 34-35
\* raises AttributeError on None
RECURSIVE ReadRows(_, _, _)
ReadRows(rows, i, index) ==
  IF i > Len(rows) THEN [raised |-> FALSE, value |-> index]
  ELSE IF rows[i].Username = NoneValue \/ rows[i].Packages.none
       THEN [raised |-> TRUE, value |-> index]
  ELSE IF Strip(rows[i].Username) = "" THEN ReadRows(rows, i + 1, index)
  ELSE ReadRows(rows, i + 1,
                AddRow(index, Lower(Strip(rows[i].Username)),
                       OwnedPackages(rows[i].Packages.tokens)))

\* lines 25-46
load_customer_packages(csv) ==
  IF ~csv.exists THEN [raised |-> FALSE, value |-> <<>>]
  ELSE ReadRows(csv.rows, 1, <<>>)

\* ------------------------------------------------------------------- main
RequirementFiles ==
  {[exists |-> FALSE, lines |-> <<>>],
   [exists |-> TRUE, lines |-> <<>>],
   [exists |-> TRUE, lines |-> <<NoColon(""), Line(" gpu-cluster ", " pkg-gpu")>>],
   [exists |-> TRUE,
    lines |-> <<Line("storage", "pkg-storage"), NoColon("no colon"),
                Line("gpu-cluster", "pkg-gpu")>>],
   [exists |-> TRUE,
    lines |-> <<Line("gpu-cluster", "pkg-storage"), Line("gpu-cluster", "pkg-gpu")>>]}

CsvRows ==
  {Row("Alice", Field(<<"[", "\"", "pkg-gpu", "\"", "]">>)),
   Row(" alice ", Field(<<"pkg-storage", ";", " ", "pkg-gpu">>)),
   Row("bob", Field(<<>>)),
   Row("bob", Field(<<"pkg-gpu", "\"", "pkg-storage", ",">>)),
   Row(" ", Field(<<"pkg-gpu">>)),
   Row("bob", NoField)}

CsvFiles ==
  {[exists |-> FALSE, rows |-> <<>>]}
    \cup {[exists |-> TRUE, rows |-> rows] :
            rows \in UNION {[1..n -> CsvRows] : n \in 0..MaxRows}}

MainFolders ==
  {<<>>,
   <<Undecodable>>,
   <<Srv("bob", {"gpu-cluster", "storage"})>>,
   <<Undecodable, NotAnObject>>,
   <<Srv("Alice", {"gpu-cluster"}), Srv("carol", {"gpu-cluster"})>>}

InitMain ==
  /\ servers \in MainFolders
  /\ requirements = <<>>
  /\ user_packages = <<>>
  /\ cpu_count \in {1, MaxCpu}
  /\ requirements_file \in RequirementFiles
  /\ customers_csv \in CsvFiles
  /\ report = <<>>
  /\ pc = "load_requirements"
  /\ evaluated = <<>>
  /\ NoScan
  /\ NoHistory

\* lines 129-131
LoadRequirements ==
  /\ pc = "load_requirements"
  /\ requirements' = load_requirements(requirements_file)
  /\ pc' = "load_customer_packages"
  /\ UNCHANGED <<servers, user_packages, cpu_count, evaluated, scan, history, given, main>>

\* lines 132-134; an exception load_customer_packages raises is caught nowhere
\* and ends the program with a traceback
LoadCustomerPackages ==
  /\ pc = "load_customer_packages"
  /\ LET loaded == load_customer_packages(customers_csv)
     IN IF loaded.raised
        THEN /\ pc' = "traceback"
             /\ user_packages' = user_packages
        ELSE /\ pc' = "scan"
             /\ user_packages' = loaded.value
  /\ UNCHANGED <<servers, requirements, cpu_count, evaluated, scan, history, given, main>>

\* lines 138-142 and save_results_to_file (lines 103-126)
SaveResults ==
  /\ pc = "returned"
  /\ report' = [requirements_checked |-> Len(requirements),
                total |-> Len(ret[1]),
                servers |-> ret[1]]
  /\ pc' = "done"
  /\ UNCHANGED <<inputs, evaluated, scan, history, given, requirements_file, customers_csv>>

NextMain ==
  \/ LoadRequirements
  \/ LoadCustomerPackages
  \/ Enumerate
  \/ Submit
  \/ \E f \in DOMAIN future_to_file : WorkerStart(f)
  \/ \E f \in DOMAIN future_to_file : WorkerFinish(f)
  \/ \E f \in DOMAIN future_to_file : Collect(f)
  \/ Return
  \/ SaveResults

\* the interpreter and the processes of the pool keep running: a step that is
\* possible is eventually taken
SpecMain == InitMain /\ [][NextMain]_vars /\ WF_vars(NextMain)

\* ------------------------------------------------------------ the claims
\* the package set the customer index holds for an owner (the index is keyed
\* by lower-cased usernames); empty when the owner has no entry
HeldFor(owner) ==
  IF Lower(owner) \in DOMAIN user_packages THEN user_packages[Lower(owner)] ELSE {}

FailsAuthorization(data, rule) ==
  /\ rule.resource \in data.resources.items
  /\ rule.required_package \notin HeldFor(data.ownerName)

\* the ViolationEntry of the pair (record in file f, rule)
ViolationEntry(f, rule) ==
  [server_code |-> servers[f].EndPoint,
   owner_name |-> servers[f].ownerName,
   owner_profile |-> servers[f].ownerProfile,
   resource |-> rule.resource,
   required_package |-> rule.required_package,
   file_name |-> f]

Positions(list, entry) == {k \in 1..Len(list) : list[k] = entry}

\* C1: for a well-formed record the evaluator returns no diagnostic, exactly
\* one ViolationEntry for each rule whose resource the record uses and whose
\* package the owner's index entry (empty when there is none) lacks, none for
\* any other rule, and nothing else.
C1_ViolationIff ==
  (pc = "called" /\ WellFormed(servers[1])) =>
    /\ evaluated[2] = None
    /\ \A i \in 1..Len(requirements) :
         Cardinality(Positions(evaluated[1], ViolationEntry(1, requirements[i])))
           = IF FailsAuthorization(servers[1], requirements[i]) THEN 1 ELSE 0
    /\ \A k \in 1..Len(evaluated[1]) :
         \E i \in 1..Len(requirements) :
           evaluated[1][k] = ViolationEntry(1, requirements[i])

\* a well-formed record with a mixed-case owner name meets two rules and fails one
C1_Witness ==
  /\ pc = "called"
  /\ WellFormed(servers[1])
  /\ servers[1].ownerName = "Alice"
  /\ Len(requirements) = 2
  /\ HeldFor("Alice") # {}
  /\ Len(evaluated[1]) = 1

ParseableWithoutData(data) ==
  data.json = "object" /\ data.Data = Absent /\ data.raises = 0

\* C6 as stated: a parseable record without a Data member yields zero
\* violations and exactly one Diagnostic.
C6_AbsentDataOneDiagnostic ==
  (pc = "called" /\ ParseableWithoutData(servers[1])) =>
    (evaluated[1] = <<>> /\ evaluated[2] # None)

\* C6 amended: a parseable record without a Data member yields zero violations
\* and no Diagnostic (Data defaults to an empty object), for every table and
\* index.
C6_AbsentDataNoDiagnostic ==
  (pc = "called" /\ ParseableWithoutData(servers[1])) =>
    (evaluated[1] = <<>> /\ evaluated[2] = None)

C6_Witness ==
  /\ pc = "called"
  /\ ParseableWithoutData(servers[1])
  /\ Len(requirements) = 2
  /\ "n/a" \notin DOMAIN user_packages
  /\ evaluated = <<<<>>, None>>

\* C7: the evaluator returns a pair for every record; when the try block
\* raised, the pair holds a Diagnostic naming the file and an empty violation
\* list, whatever had been accumulated before; a Diagnostic never comes with
\* violations.
C7_DiagnosticMeansNoViolations ==
  pc = "called" =>
    /\ Len(evaluated) = 2
    /\ evaluated[2] \in {None, ReadError(1), UnexpectedError(1)}
    /\ TryBody(1, requirements, user_packages).raised # "no" =>
         (evaluated[2] # None /\ evaluated[2].file = 1)
    /\ evaluated[2] # None => evaluated[1] = <<>>

\* the rule loop raised after an entry had been appended for an earlier rule
C7_Witness ==
  /\ pc = "called"
  /\ TryBody(1, requirements, user_packages).raised = "Exception"
  /\ TryBody(1, requirements, user_packages).acc # <<>>
  /\ evaluated = <<<<>>, UnexpectedError(1)>>

\* ascending lexicographic order by (source_identifier, resource)
SortKeyLeq(a, b) ==
  \/ a.file_name < b.file_name
  \/ a.file_name = b.file_name /\ ResourceRank(a.resource) <= ResourceRank(b.resource)
IsSorted(list) == \A k \in 1..(Len(list) - 1) : SortKeyLeq(list[k], list[k + 1])

\* C2 as stated: the violation list the scan returns is sorted ascending by
\* (source_identifier, resource), whatever the order in which workers complete.
C2_ReturnedSorted ==
  pc = "returned" => IsSorted(ret[1])

\* C3: a second scan over the same table, index and folder returns the same set
\* of violations, the same processedCount and the same foundCount as the first,
\* whatever the two completion orders.
C3_SameOutcome ==
  (pc = "returned" /\ run = 2 /\ added = 0) =>
    /\ Range(ret[1]) = first.violations
    /\ ret[2] = first.processed
    /\ ret[3] = first.found

\* the second scan returned three violations of two records, the later file's first
C3_Witness ==
  /\ pc = "returned"
  /\ run = 2
  /\ added = 0
  /\ Len(ret[1]) = 3
  /\ ~IsSorted(ret[1])
  /\ ret[1][1].file_name > ret[1][3].file_name

Malformed(data) == ~WellFormed(data)
OtherwiseValid == \A f \in DOMAIN servers \ {added} : WellFormed(servers[f])
SameButOneMore ==
  /\ Range(ret[1]) = first.violations
  /\ Len(stdout) = first.diagnostics + 1
  /\ ret[2] = first.processed + 1

\* C4 as stated: with one malformed record added to an otherwise valid folder,
\* the scan returns the same violation set, one more diagnostic and a
\* processedCount greater by one.
C4_MalformedAddsOneDiagnostic ==
  (pc = "returned" /\ run = 2 /\ added # 0 /\ OtherwiseValid
     /\ Malformed(servers[added])) => SameButOneMore

Faults(f) == process_json_file(f, requirements, user_packages)[2] # None

\* C4 amended: with one record added whose evaluation raises (a file that
\* does not decode, a document or Data that is not an object, an ownerName that
\* is not a string, resources that are no container under a non-empty table),
\* the scan returns the same violation set, one more diagnostic and a
\* processedCount greater by one.
C4_FaultingAddsOneDiagnostic ==
  (pc = "returned" /\ run = 2 /\ added # 0 /\ OtherwiseValid /\ Faults(added))
    => SameButOneMore

C4_Witness ==
  /\ pc = "returned"
  /\ run = 2
  /\ added = 3
  /\ OtherwiseValid
  /\ servers[added] = WithData("srv", BadList, "bob", "profile", 0)
  /\ Len(ret[1]) = 3
  /\ stdout = <<UnexpectedError(3)>>
  /\ ret[2] = 3

\* the files whose evaluation produced a diagnostic
Diagnosed == {f \in DOMAIN future_to_file : future_to_file[f].result[2] # None}
\* line 101 returns (unauthorized_servers, processed_files, found_servers): the
\* diagnostics would have to be a further component
ReturnedDiagnostics == IF Len(ret) > 3 THEN ret[4] ELSE <<>>
OnePerDiagnosed(list) ==
  /\ \A f \in Diagnosed : Cardinality({k \in 1..Len(list) : list[k].file = f}) = 1
  /\ \A k \in 1..Len(list) : list[k].file \in Diagnosed

C8_ReturnsAfterAll ==
  (pc = "returned" /\ json_files # {}) =>
    /\ DOMAIN future_to_file = json_files
    /\ json_files = DOMAIN servers
    /\ FuturesIn("yielded") = json_files
    /\ ret[2] = Cardinality(json_files)
    /\ processed_files = Cardinality(json_files)

C8_Witness ==
  /\ pc = "returned"
  /\ Cardinality(json_files) = MaxFiles
  /\ ret[2] = MaxFiles
  /\ FuturesIn("yielded") = json_files

\* C9 (state part): during collection and at return processedCount is the
\* number of results merged, foundCount is the length of the accumulated list,
\* processedCount is at most the number of files, and the returned foundCount
\* is the number of returned violations; with a single rule foundCount is the
\* number of violating records.
C9_Counters ==
  pc \in {"as_completed", "returned"} /\ json_files # {} =>
    /\ processed_files = Cardinality(FuturesIn("yielded"))
    /\ found_servers = Len(unauthorized_servers)
    /\ processed_files <= Cardinality(json_files)
    /\ pc = "returned" =>
         /\ ret[3] = Len(ret[1])
         /\ ret[2] = processed_files
         /\ Len(requirements) = 1 =>
              ret[3] = Cardinality({f \in json_files : future_to_file[f].result[1] # <<>>})

\* C9: the counters agree with what has been merged at every point of the
\* collection loop and never decrease during a scan.
C9_CountersMonotone ==
  /\ []C9_Counters
  /\ [][run' = run =>
          (processed_files' >= processed_files /\ found_servers' >= found_servers)]_vars

\* the scenario of the specification: three records, two of them violating
C9_Witness ==
  /\ pc = "returned"
  /\ requirements = <<Rule("gpu-cluster", "pkg-gpu")>>
  /\ servers = <<Srv("Alice", {"gpu-cluster"}), Srv("bob", {"gpu-cluster", "storage"}),
                 Srv("carol", {"gpu-cluster"})>>
  /\ ret[2] = 3
  /\ ret[3] = 2

\* C10: the scan of an empty folder returns empty violations, processedCount 0
\* and foundCount 0, has printed no diagnostic, and has neither created the pool
\* nor submitted a call.
C10_EmptyFolder ==
  (pc = "returned" /\ DOMAIN servers = {}) =>
    /\ ret = <<<<>>, 0, 0>>
    /\ stdout = <<>>
    /\ max_workers = 0
    /\ future_to_file = <<>>

C10_Witness ==
  /\ pc = "returned"
  /\ DOMAIN servers = {}
  /\ json_files = {}
  /\ ret = <<<<>>, 0, 0>>

\* C11: with an empty entitlement table the scan returns no violation and
\* foundCount 0 whatever the folder holds, and processedCount is the number of
\* records.
C11_EmptyTable ==
  (pc = "returned" /\ requirements = <<>>) =>
    /\ ret[1] = <<>>
    /\ ret[3] = 0
    /\ ret[2] = Cardinality(DOMAIN servers)

\* an empty table over records of a known and an unknown owner and an added
\* record whose resources are no container
C11_Witness ==
  /\ pc = "returned"
  /\ requirements = <<>>
  /\ run = 2
  /\ added = 3
  /\ servers[1] = Srv("carol", {"gpu-cluster"})
  /\ servers[2] = Srv("bob", {"gpu-cluster", "storage"})
  /\ servers[3] = WithData("srv", BadList, "bob", "profile", 0)
  /\ stdout = <<>>
  /\ ret = <<<<>>, 3, 0>>

OwnerKey(data) == Lower(DictGet(data.ownerName, "N/A"))
WithEmptyEntry(index, key) ==
  [u \in DOMAIN index \cup {key} |-> IF u = key THEN {} ELSE index[u]]
RulesUsed(data) == {i \in 1..Len(requirements) : requirements[i].resource \in data.resources.items}

\* C12: for a record whose owner has no entry in the customer index the
\* evaluator returns what it returns when the index maps the owner to the empty
\* set; for a well-formed record that is one violation for each rule whose
\* resource the record uses.
C12_AbsentOwnerAsEmpty ==
  (pc = "called" /\ servers[1].ownerName # WrongType
     /\ OwnerKey(servers[1]) \notin DOMAIN user_packages) =>
    /\ evaluated = process_json_file(1, requirements,
                                     WithEmptyEntry(user_packages, OwnerKey(servers[1])))
    /\ WellFormed(servers[1]) =>
         /\ Len(evaluated[1]) = Cardinality(RulesUsed(servers[1]))
         /\ \A i \in RulesUsed(servers[1]) :
              Cardinality(Positions(evaluated[1], ViolationEntry(1, requirements[i]))) = 1

C12_Witness ==
  /\ pc = "called"
  /\ WellFormed(servers[1])
  /\ servers[1].ownerName = "carol"
  /\ DOMAIN user_packages = {"alice", "bob"}
  /\ Len(requirements) = 2
  /\ Len(evaluated[1]) = 1

Pairs(list) == {<<list[k].resource, list[k].required_package>> : k \in 1..Len(list)}

\* C13: two records that differ only in the letter case of ownerName yield
\* violations for the same (resource, required_package) pairs and the same kind
\* of diagnostic.
C13_CaseInsensitive ==
  pc = "called" =>
    LET twin == process_json_file(2, requirements, user_packages)
    IN /\ Pairs(evaluated[1]) = Pairs(twin[1])
       /\ evaluated[2].kind = twin[2].kind

\* "Alice" and "alice" against an index that holds one of two required packages
C13_Witness ==
  /\ pc = "called"
  /\ WellFormed(servers[1])
  /\ servers[1].ownerName = "Alice"
  /\ servers[2].ownerName = "alice"
  /\ Len(requirements) = 2
  /\ Cardinality(HeldFor("alice")) = 1
  /\ Len(evaluated[1]) = 1

\* C14: at every point of a scan at most cpu_count records are being evaluated
\* (the scan takes no concurrency argument, the pool is always created with
\* max_workers = cpu_count), and each worker evaluates at most one record.
C14_BoundedConcurrency ==
  /\ Cardinality(FuturesIn("running")) <= cpu_count
  /\ \A f \in FuturesIn("running") : future_to_file[f].worker \in 1..cpu_count
  /\ \A w \in 1..cpu_count : Cardinality(RunningOn(w)) <= 1
  /\ max_workers \in {0, cpu_count}

\* every worker is busy and a submitted record waits
C14_Witness ==
  /\ pc = "as_completed"
  /\ cpu_count = MaxCpu
  /\ Cardinality(FuturesIn("running")) = cpu_count
  /\ FuturesIn("pending") # {}

\* C15: during a scan and at its return the entitlement table and the customer
\* index are the ones the scan was called with: no dispatch, evaluation or
\* collection step writes to them.
C15_LookupsUnchanged ==
  pc \in {"executor", "as_completed", "returned"} =>
    /\ requirements = given[1]
    /\ user_packages = given[2]

\* a scan that evaluated a record of an owner the index does not know and a
\* file that does not decode
C15_Witness ==
  /\ pc = "returned"
  /\ \E f \in json_files : servers[f].ownerName = "carol"
  /\ \E f \in json_files : servers[f] = Undecodable
  /\ given = <<requirements, ScanIndex>>
  /\ ret[1] # <<>>

Count(list, entry) == Cardinality(Positions(list, entry))
Evaluated == FuturesIn("done") \cup FuturesIn("yielded")
KnownEntries ==
  Range(unauthorized_servers)
    \cup UNION {Range(future_to_file[f].result[1]) : f \in DOMAIN future_to_file}

\* C18: at every point of the collection the accumulated list holds, as a
\* multiset, the results of the futures the coordinator has collected and
\* nothing else: no entry is lost or duplicated and no worker step adds to it;
\* each completed future holds the evaluation of its record, processedCount is
\* the number of results merged, and the returned list is the union of all
\* per-record lists.
C18_MergedOnce ==
  (pc \in {"as_completed", "returned"} /\ json_files # {}) =>
    /\ \A e \in KnownEntries :
         Count(unauthorized_servers, e) =
           IF e.file_name \in FuturesIn("yielded")
           THEN Count(future_to_file[e.file_name].result[1], e) ELSE 0
    /\ \A f \in Evaluated :
         future_to_file[f].result = process_json_file(f, requirements, user_packages)
    /\ processed_files = Cardinality(FuturesIn("yielded"))
    /\ pc = "returned" =>
         /\ FuturesIn("yielded") = json_files
         /\ ret[1] = unauthorized_servers

\* two results were completed before the first was collected, a third record
\* is still evaluated
C18_Witness ==
  /\ pc = "as_completed"
  /\ Cardinality(FuturesIn("yielded")) = 1
  /\ Cardinality(FuturesIn("done")) = 1
  /\ Cardinality(FuturesIn("running")) = 1
  /\ Len(unauthorized_servers) = 2
  /\ \A f \in FuturesIn("done") : future_to_file[f].result[1] # <<>>

RuleIndex(entry) ==
  CHOOSE i \in 1..Len(requirements) : requirements[i].resource = entry.resource
InBlocks(list) ==
  \A i \in 1..Len(list) : \A k \in i..Len(list) :
    list[i].file_name = list[k].file_name =>
      \A j \in i..k : list[j].file_name = list[i].file_name
InRuleOrder(list) ==
  \A i \in 1..Len(list) : \A k \in (i + 1)..Len(list) :
    list[i].file_name = list[k].file_name => RuleIndex(list[i]) < RuleIndex(list[k])

\* C19: in the returned list the violations of one record are contiguous and
\* appear in the iteration order of the entitlement table.
C19_ContiguousBlocks ==
  pc = "returned" => (InBlocks(ret[1]) /\ InRuleOrder(ret[1]))

\* the block of the later file comes first; its two entries are in table order,
\* which is not the order of the resource names
C19_Witness ==
  /\ pc = "returned"
  /\ Len(requirements) = 2
  /\ Len(ret[1]) = 3
  /\ ret[1][1].file_name = 2
  /\ ret[1][2].file_name = 2
  /\ ret[1][3].file_name = 1
  /\ ret[1][1].resource = "storage"
  /\ ret[1][2].resource = "gpu-cluster"

\* C16: every run of main reaches the writing of the report and ends.
C16_ReportAlwaysWritten ==
  <>(pc = "done" /\ report # <<>>)

RowKey(row) == Lower(Strip(row.Username))
RowsOf(u) ==
  {i \in 1..Len(customers_csv.rows) : RowKey(customers_csv.rows[i]) = u}

\* C17: after a load the index has one entry for each non-empty lower-cased
\* username of the rows, and its owned_packages is the union of the package
\* sets of all rows with that username, whatever the order of the rows.
C17_UnionOfRows ==
  (pc = "scan" /\ customers_csv.exists) =>
    /\ DOMAIN user_packages = {RowKey(customers_csv.rows[i]) : i \in 1..Len(customers_csv.rows)} \ {""}
    /\ \A u \in DOMAIN user_packages :
         user_packages[u] =
           UNION {OwnedPackages(customers_csv.rows[i].Packages.tokens) : i \in RowsOf(u)}

\* a row of "Alice" with one package, a row of bob, then a row of " alice "
\* with two packages
C17_Witness ==
  /\ pc = "scan"
  /\ Len(customers_csv.rows) = 3
  /\ customers_csv.rows[1] = Row("Alice", Field(<<"[", "\"", "pkg-gpu", "\"", "]">>))
  /\ customers_csv.rows[2].Username = "bob"
  /\ customers_csv.rows[3].Username = " alice "
  /\ user_packages["alice"] = {"pkg-gpu", "pkg-storage"}
  /\ user_packages["bob"] = {}
====
